---- MODULE Spec2Model ----
(***************************************************************************)
(* Model of openandroidinstaller/views/addon_view.py: the AddonsView step  *)
(* of the installer.  Strings that the code splits or joins are sequences  *)
(* of one-character strings; paths, which the code only copies, are plain  *)
(* strings.  Python values that may be absent are tagged records.          *)
(***************************************************************************)
EXTENDS Integers, Sequences, FiniteSets, TLC

VARIABLES built, selected_addons, page_label, confirm_button, pick_button,
          dlg_open, addon_paths, state_addon_paths, pending, history,
          on_confirm_calls, browser, log_last, last_op

vars == <<built, selected_addons, page_label, confirm_button, pick_button,
          dlg_open, addon_paths, state_addon_paths, pending, history,
          on_confirm_calls, browser, log_last, last_op>>

\* ---------------------------------------------------------------- bounds
MaxFiles == 2
MaxResults == 2
MaxConfirms == 2

\* ------------------------------------------------------- python values
None == [t |-> "None"]
Unset == [t |-> "unset"]
List(s) == [t |-> "list", v |-> s]

\* truthiness of e.files: None and the empty list are falsy
Truthy(x) == x.t = "list" /\ Len(x.v) > 0

\* ------------------------------------------------------------- strings
InitialLabel == <<"S","e","l","e","c","t","e","d"," ","a","d","d","o","n","s",":"," ">>
CancelledMarker == <<"C","a","n","c","e","l","l","e","d","!">>
CommaSep == <<",", " ">>
ColonSep == <<":", " ">>

\* str.split(":")[0]: the text before the first ':' (all of it if none)
SplitColonFirst(s) ==
    IF \E i \in 1..Len(s) : s[i] = ":"
    THEN LET k == CHOOSE i \in 1..Len(s) :
                     s[i] = ":" /\ \A j \in 1..(i-1) : s[j] # ":"
         IN SubSeq(s, 1, k - 1)
    ELSE s

RECURSIVE Join(_, _)
\* sep.join(parts)
Join(sep, parts) ==
    IF Len(parts) = 0 THEN <<>>
    ELSE IF Len(parts) = 1 THEN parts[1]
    ELSE parts[1] \o sep \o Join(sep, Tail(parts))

\* ---------------------------------------------------------- the inputs
FileRefs ==
    { [name |-> <<"a",".","z","i","p">>, path |-> "/x/a.zip"],
      [name |-> <<"b",".","z","i","p">>, path |-> "/x/b.zip"],
      [name |-> <<"c",":","d",".","z","i","p">>, path |-> "/y/c:d.zip"] }

\* selections of distinct files, up to MaxFiles of them, in any order
FileLists ==
    UNION { { s \in [1..n -> FileRefs] : \A i, j \in 1..n : i # j => s[i] # s[j] }
            : n \in 0..MaxFiles }

\* FilePickerResultEvent.files: None on cancel, else the list of files
ResultEvents == {None} \cup { List(s) : s \in FileLists }

Urls == { "https://f-droid.org/en/packages/org.fdroid.fdroid.privileged.ota/",
          "https://wiki.lineageos.org/gapps#downloads",
          "https://github.com/FriendlyNeighborhoodShane/MinMicroG-abuse-CI/releases" }

\* values AppState.addon_paths may hold when the view is constructed
PriorAddonPaths == { List(<<>>), List(<<"/old/o.zip">>) }

\* ------------------------------------------------------ pure functions
Names(files) == [i \in 1..Len(files) |-> files[i].name]
Paths(files) == [i \in 1..Len(files) |-> files[i].path]

\* variant: a cancelled pick leaves the text after the prefix blank
PathText_blank(files) == IF Truthy(files) THEN Join(CommaSep, Names(files.v)) ELSE <<>>

\* variant: only a missing payload (None) is labelled as cancelled
PathText_none_only(files) ==
    IF files = None THEN CancelledMarker ELSE Join(CommaSep, Names(files.v))

\* line 203
PathText(files) == IF Truthy(files) THEN Join(CommaSep, Names(files.v)) ELSE CancelledMarker

\* variant: the ':' is left out of the text put after the prefix
NewLabel_nocolon(old, files) == SplitColonFirst(old) \o <<" ">> \o PathText(files)

\* variant: the new text is appended to the whole old label
NewLabel_append(old, files) ==
    IF old = InitialLabel THEN old \o PathText(files)
    ELSE old \o CommaSep \o PathText(files)

\* lines 205-207
NewLabel(old, files) == SplitColonFirst(old) \o ColonSep \o PathText(files)

\* widgets.confirm_button(f): a button, enabled, whose click calls f once
ConfirmButtonWidget(f) == [disabled |-> FALSE, on_click |-> f]

\* ------------------------------------------------------------- actions
Init ==
    /\ built = FALSE
    /\ selected_addons = Unset
    /\ page_label = Unset
    /\ confirm_button = Unset
    /\ pick_button = Unset
    /\ dlg_open = FALSE
    /\ addon_paths = Unset
    /\ state_addon_paths \in PriorAddonPaths
    /\ pending = 0
    /\ history = <<>>
    /\ on_confirm_calls = 0
    /\ browser = "none"
    /\ log_last = "none"
    /\ last_op = "__init__"

\* variant: line 99 active, the confirm button starts disabled
Build_confirm_disabled ==
    /\ ~built
    /\ built' = TRUE
    /\ selected_addons' = InitialLabel
    /\ page_label' = InitialLabel
    /\ confirm_button' = [ConfirmButtonWidget("on_confirm") EXCEPT !.disabled = TRUE]
    /\ pick_button' = [disabled |-> FALSE, on_click |-> "pick_files"]
    /\ last_op' = "build"
    /\ UNCHANGED <<dlg_open, addon_paths, state_addon_paths, pending, history,
                   on_confirm_calls, browser, log_last>>

Build ==
    /\ ~built
    /\ built' = TRUE
    /\ selected_addons' = InitialLabel
    /\ page_label' = InitialLabel
    /\ confirm_button' = ConfirmButtonWidget("on_confirm")
    /\ pick_button' = [disabled |-> FALSE, on_click |-> "pick_files"]
    /\ last_op' = "build"
    /\ UNCHANGED <<dlg_open, addon_paths, state_addon_paths, pending, history,
                   on_confirm_calls, browser, log_last>>

OpenDialog ==
    /\ built /\ ~dlg_open
    /\ dlg_open' = TRUE
    /\ last_op' = "open_dialog"
    /\ UNCHANGED <<built, selected_addons, page_label, confirm_button, pick_button,
                   addon_paths, state_addon_paths, pending, history,
                   on_confirm_calls, browser, log_last>>

CloseDialog ==
    /\ built /\ dlg_open
    /\ dlg_open' = FALSE
    /\ last_op' = "close_dialog"
    /\ UNCHANGED <<built, selected_addons, page_label, confirm_button, pick_button,
                   addon_paths, state_addon_paths, pending, history,
                   on_confirm_calls, browser, log_last>>

OpenLink ==
    /\ built
    /\ \E u \in Urls : browser' = u
    /\ last_op' = "open_link"
    /\ UNCHANGED <<built, selected_addons, page_label, confirm_button, pick_button,
                   dlg_open, addon_paths, state_addon_paths, pending, history,
                   on_confirm_calls, log_last>>

\* variant: the trigger refuses a second request while one is outstanding
PickFiles_exclusive ==
    /\ built
    /\ ~pick_button.disabled
    /\ pending = 0
    /\ pending + Len(history) < MaxResults
    /\ pending' = pending + 1
    /\ last_op' = "pick_files"
    /\ UNCHANGED <<built, selected_addons, page_label, confirm_button, pick_button,
                   dlg_open, addon_paths, state_addon_paths, history,
                   on_confirm_calls, browser, log_last>>

\* variant: opening the picker resets the label to its initial text
PickFiles_reset ==
    /\ built
    /\ ~pick_button.disabled
    /\ pending + Len(history) < MaxResults
    /\ pending' = pending + 1
    /\ selected_addons' = InitialLabel
    /\ page_label' = InitialLabel
    /\ last_op' = "pick_files"
    /\ UNCHANGED <<built, confirm_button, pick_button,
                   dlg_open, addon_paths, state_addon_paths, history,
                   on_confirm_calls, browser, log_last>>

PickFiles ==
    /\ built
    /\ ~pick_button.disabled
    /\ pending + Len(history) < MaxResults
    /\ pending' = pending + 1
    /\ last_op' = "pick_files"
    /\ UNCHANGED <<built, selected_addons, page_label, confirm_button, pick_button,
                   dlg_open, addon_paths, state_addon_paths, history,
                   on_confirm_calls, browser, log_last>>

\* variant: the new paths are added to the ones already recorded
pick_addons_result_accumulate(e) ==
    /\ selected_addons' = NewLabel(selected_addons, e)
    /\ IF Truthy(e)
       THEN /\ addon_paths' = List((IF state_addon_paths.t = "list"
                                    THEN state_addon_paths.v ELSE <<>>) \o Paths(e.v))
            /\ state_addon_paths' = addon_paths'
            /\ log_last' = "Selected addons"
       ELSE /\ UNCHANGED <<addon_paths, state_addon_paths>>
            /\ log_last' = "No addons selected."
    /\ page_label' = selected_addons'

\* variant: a result without files clears the recorded paths
pick_addons_result_clear(e) ==
    /\ selected_addons' = NewLabel(selected_addons, e)
    /\ IF Truthy(e)
       THEN /\ addon_paths' = List(Paths(e.v))
            /\ state_addon_paths' = addon_paths'
            /\ log_last' = "Selected addons"
       ELSE /\ addon_paths' = List(<<>>)
            /\ state_addon_paths' = addon_paths'
            /\ log_last' = "No addons selected."
    /\ page_label' = selected_addons'

\* variant: line 210 missing, the shared state is not written
pick_addons_result_nostate(e) ==
    /\ selected_addons' = NewLabel(selected_addons, e)
    /\ IF Truthy(e)
       THEN /\ addon_paths' = List(Paths(e.v))
            /\ UNCHANGED state_addon_paths
            /\ log_last' = "Selected addons"
       ELSE /\ UNCHANGED <<addon_paths, state_addon_paths>>
            /\ log_last' = "No addons selected."
    /\ page_label' = selected_addons'

pick_addons_result(e) ==
    /\ selected_addons' = NewLabel(selected_addons, e)
    /\ IF Truthy(e)
       THEN /\ addon_paths' = List(Paths(e.v))
            /\ state_addon_paths' = addon_paths'
            /\ log_last' = "Selected addons"
       ELSE /\ UNCHANGED <<addon_paths, state_addon_paths>>
            /\ log_last' = "No addons selected."
    /\ page_label' = selected_addons'

PickResult ==
    /\ built
    /\ pending > 0
    /\ \E e \in ResultEvents :
          /\ pick_addons_result(e)
          /\ history' = Append(history, e)
    /\ pending' = pending - 1
    /\ last_op' = "pick_addons_result"
    /\ UNCHANGED <<built, confirm_button, pick_button, dlg_open,
                   on_confirm_calls, browser>>

Confirm ==
    /\ built
    /\ ~confirm_button.disabled
    /\ on_confirm_calls < MaxConfirms
    /\ confirm_button.on_click = "on_confirm"
    /\ on_confirm_calls' = on_confirm_calls + 1
    /\ last_op' = "confirm"
    /\ UNCHANGED <<built, selected_addons, page_label, confirm_button, pick_button,
                   dlg_open, addon_paths, state_addon_paths, pending, history,
                   browser, log_last>>

Next ==
    \/ Build
    \/ OpenDialog
    \/ CloseDialog
    \/ OpenLink
    \/ PickFiles
    \/ PickResult
    \/ Confirm

Spec == Init /\ [][Next]_vars

\* ---------------------------------------------------------- properties
LastEvent == history[Len(history)]
ResultJustDelivered == last_op = "pick_addons_result" /\ Len(history) > 0
SomeSuccess == \E k \in 1..Len(history) : Truthy(history[k])
LastSuccess ==
    history[CHOOSE k \in 1..Len(history) :
                Truthy(history[k]) /\ \A j \in (k+1)..Len(history) : ~Truthy(history[j])]
PrefixText == <<"S","e","l","e","c","t","e","d"," ","a","d","d","o","n","s">>
CancelledLabel == PrefixText \o <<":"," ">> \o <<"C","a","n","c","e","l","l","e","d","!">>
FileA == [name |-> <<"a",".","z","i","p">>, path |-> "/x/a.zip"]
FileB == [name |-> <<"b",".","z","i","p">>, path |-> "/x/b.zip"]
FileC == [name |-> <<"c",":","d",".","z","i","p">>, path |-> "/y/c:d.zip"]

\* C1: right after a result with a non-empty list of files, the shared
\* state's addon_paths is exactly the files' paths in input order, whatever
\* it held before (the second of two selections replaces the first).
C1_PathsAreLastSelection ==
    (ResultJustDelivered /\ Truthy(LastEvent)) =>
        /\ state_addon_paths.t = "list"
        /\ Len(state_addon_paths.v) = Len(LastEvent.v)
        /\ \A i \in 1..Len(LastEvent.v) : state_addon_paths.v[i] = LastEvent.v[i].path

C1_Witness ==
    /\ ResultJustDelivered
    /\ Len(history) = 2
    /\ history[1] = List(<<FileA, FileB>>)
    /\ history[2] = List(<<FileC, FileA>>)
    /\ state_addon_paths = List(<<"/y/c:d.zip", "/x/a.zip">>)

\* C2: a step that delivers a result without usable files (cancelled, or an
\* empty list) leaves the shared state's addon_paths as it was.
C2_NoFilesNoWrite ==
    [][(last_op' = "pick_addons_result" /\ ~Truthy(history'[Len(history')]))
          => state_addon_paths' = state_addon_paths]_vars

C2_Witness ==
    /\ ResultJustDelivered
    /\ history = <<None, List(<<>>)>>
    /\ state_addon_paths = List(<<"/old/o.zip">>)

\* C3: once the view is built, the label always starts with the initial
\* prefix "Selected addons" followed by the first ':' of the label.
C3_PrefixInvariant ==
    built =>
        /\ Len(selected_addons) > Len(PrefixText)
        /\ SubSeq(selected_addons, 1, Len(PrefixText)) = PrefixText
        /\ selected_addons[Len(PrefixText) + 1] = ":"
        /\ \A i \in 1..Len(PrefixText) : selected_addons[i] # ":"

C3_Witness ==
    /\ ResultJustDelivered
    /\ Len(history) = 2
    /\ history[1] = List(<<FileC>>)
    /\ history[2] = List(<<FileC, FileB>>)
    /\ SubSeq(selected_addons, 1, Len(PrefixText) + 1) = PrefixText \o <<":">>

\* C4: right after a result with a non-empty list of files the label is the
\* prefix, ": ", and the files' names joined by ", " in input order; names
\* a.zip, b.zip give "Selected addons: a.zip, b.zip".
C4_LabelIsJoinedNames ==
    (ResultJustDelivered /\ Truthy(LastEvent)) =>
        /\ selected_addons = PrefixText \o <<":"," ">> \o Join(<<",", " ">>, Names(LastEvent.v))
        /\ LastEvent = List(<<FileA, FileB>>) =>
              selected_addons = PrefixText \o
                  <<":"," ","a",".","z","i","p",","," ","b",".","z","i","p">>

C4_Witness ==
    /\ ResultJustDelivered
    /\ history = <<List(<<FileC, FileB>>), List(<<FileA, FileB>>)>>
    /\ selected_addons = PrefixText \o
           <<":"," ","a",".","z","i","p",","," ","b",".","z","i","p">>

\* C5: right after a cancellation that follows a successful selection the
\* label is "Selected addons: Cancelled!" and the shared state still holds
\* the paths of that selection.
C5_CancelKeepsPaths ==
    (ResultJustDelivered /\ LastEvent = None /\ SomeSuccess) =>
        /\ selected_addons = CancelledLabel
        /\ state_addon_paths = List(Paths(LastSuccess.v))

C5_Witness ==
    /\ ResultJustDelivered
    /\ history = <<List(<<FileA>>), None>>
    /\ selected_addons = CancelledLabel
    /\ state_addon_paths = List(<<"/x/a.zip">>)

\* C6: once built the confirm button is never disabled and can be activated
\* whatever the selection state; each activation calls on_confirm exactly
\* once and leaves the label and the recorded paths alone.
C6_ConfirmAlwaysEnabled ==
    /\ [](built => /\ ~confirm_button.disabled
                   /\ (on_confirm_calls < MaxConfirms => ENABLED Confirm))
    /\ [][last_op' = "confirm" =>
             /\ on_confirm_calls' = on_confirm_calls + 1
             /\ UNCHANGED <<selected_addons, addon_paths, state_addon_paths>>]_vars

C6_Witness ==
    /\ last_op = "confirm"
    /\ on_confirm_calls = 1
    /\ history = <<>>
    /\ addon_paths = Unset

\* C7: after at least one successful selection the view's addon_paths and
\* the shared state's addon_paths are equal and hold the paths of the most
\* recent successful selection, also after later cancellations.
C7_ViewAndStateAgree ==
    SomeSuccess =>
        /\ addon_paths = state_addon_paths
        /\ state_addon_paths = List(Paths(LastSuccess.v))

C7_Witness ==
    /\ history = <<List(<<FileB, FileC>>), None>>
    /\ addon_paths = List(<<"/x/b.zip", "/y/c:d.zip">>)
    /\ state_addon_paths = addon_paths

\* C8 as stated: a result with an empty but present list of files is not
\* labelled "Cancelled".
C8_Original ==
    (ResultJustDelivered /\ LastEvent = List(<<>>)) => selected_addons # CancelledLabel

\* C8 amended: every result without usable files, a cancellation as well as
\* an empty list of files, puts the "Cancelled!" marker in the label.
C8_NoFilesLabelledCancelled ==
    (ResultJustDelivered /\ ~Truthy(LastEvent)) => selected_addons = CancelledLabel

C8_Witness ==
    /\ ResultJustDelivered
    /\ LastEvent = List(<<>>)
    /\ selected_addons = CancelledLabel

\* C9 as stated: at most one pick request is outstanding at a time.
C9_Original == pending <= 1

\* C9 amended: the view does not limit outstanding pick requests; once built
\* the trigger is never disabled and a request can be issued while earlier
\* ones are outstanding, and results never outnumber requests.
C9_PickNeverBlocked ==
    built =>
        /\ ~pick_button.disabled
        /\ pending >= 0
        /\ (pending + Len(history) < MaxResults => ENABLED PickFiles)

C9_Witness ==
    /\ pending >= 2
    /\ last_op = "pick_files"

\* C10: requesting a pick, opening or closing the dialog, opening a link and
\* confirming leave the label and the shared state's addon_paths unchanged.
C10_OnlyResultWrites ==
    [][last_op' \in {"pick_files", "open_dialog", "close_dialog", "open_link", "confirm"}
          => UNCHANGED <<selected_addons, state_addon_paths>>]_vars

C10_Witness ==
    /\ last_op = "pick_files"
    /\ Len(history) = 1
    /\ Truthy(history[1])
    /\ selected_addons # InitialLabel
    /\ state_addon_paths = List(Paths(history[1].v))
====
